---- MODULE Spec2Model ----
(***************************************************************************)
(* A model of vuln-patcher.py: the reconciliation of a kernel tree against *)
(* a feed of advisories.  Strings that the program takes apart (version    *)
(* strings, advisory names) are sequences of one-character strings; strings*)
(* it only compares or concatenates (subjects, urls, actions) are strings. *)
(***************************************************************************)
EXTENDS Integers, Sequences, FiniteSets, TLC

\* ------------------------------------------------------------------ bounds
\* Longest advisory feed drawn in Init.
MaxVulns == 2
\* Most replies the operator gives to the skip/applied prompt that are
\* neither a skip nor an applied (after that many the operator decides).
MaxBadReplies == 1

\* ------------------------------------------------------------- characters
Digits == <<"0", "1", "2", "3", "4", "5", "6", "7", "8", "9">>

DigitSet == {Digits[i] : i \in 1..10}

Upper == <<"A", "C", "E", "S", "V", "X">>

Lower == <<"a", "c", "e", "s", "v", "x">>

\* int() of one decimal digit
DigitVal(c) == (CHOOSE i \in 1..10 : Digits[i] = c) - 1

\* str.isalnum() of one character
isalnum(c) == c \in DigitSet \/ (\E i \in 1..Len(Upper) : c = Upper[i] \/ c = Lower[i])

\* str.lower() of one character
lowerChar(c) ==
    IF \E i \in 1..Len(Upper) : Upper[i] = c
    THEN Lower[CHOOSE i \in 1..Len(Upper) : Upper[i] = c]
    ELSE c

\* ord() of the characters the model uses (ASCII)
ord(c) ==
    CASE c = "-" -> 45
      [] c = "." -> 46
      [] c \in DigitSet -> 48 + DigitVal(c)
      [] c = "A" -> 65 [] c = "C" -> 67 [] c = "E" -> 69
      [] c = "S" -> 83 [] c = "V" -> 86 [] c = "X" -> 88
      [] c = "a" -> 97 [] c = "c" -> 99 [] c = "e" -> 101
      [] c = "s" -> 115 [] c = "v" -> 118 [] c = "x" -> 120

RECURSIVE lower(_)
lower(s) == IF Len(s) = 0 THEN <<>> ELSE <<lowerChar(Head(s))>> \o lower(Tail(s))

\* int() of a run of decimal digits
RECURSIVE int(_)
int(s) ==
    IF Len(s) = 0 THEN 0
    ELSE 10 * int(SubSeq(s, 1, Len(s) - 1)) + DigitVal(s[Len(s)])

\* "%d" % n for n >= 0
RECURSIVE fmt_d(_)
fmt_d(n) == IF n < 10 THEN <<Digits[n + 1]>> ELSE fmt_d(n \div 10) \o <<Digits[(n % 10) + 1]>>

\* str.split(sep)
RECURSIVE split(_, _)
split(s, sep) ==
    IF \A i \in 1..Len(s) : s[i] # sep
    THEN <<s>>
    ELSE LET i == CHOOSE k \in 1..Len(s) : s[k] = sep /\ \A j \in 1..(k - 1) : s[j] # sep
         IN  <<SubSeq(s, 1, i - 1)>> \o split(SubSeq(s, i + 1, Len(s)), sep)

\* sep.join(parts)
RECURSIVE join(_, _)
join(sep, parts) ==
    IF Len(parts) = 0 THEN <<>>
    ELSE IF Len(parts) = 1 THEN parts[1]
    ELSE parts[1] \o <<sep>> \o join(sep, Tail(parts))

\* ---------------------------------------------------------------- Version
\* A Version is its _segments: a sequence of digit strings.
Version(ver) == IF Len(ver) > 0 THEN split(ver, ".") ELSE <<>>

str(v) == join(".", v)

\* hash() of a Version is the hash of its string form; distinct strings are
\* taken to hash differently.
hash(v) == str(v)

empty(v) == Len(v) = 0

RECURSIVE cmp_from(_, _, _)
cmp_from(self, other, seg) ==
    IF seg <= Len(self)
    THEN IF seg > Len(other) THEN 1
         ELSE LET s1 == int(self[seg])
                  s2 == int(other[seg])
              IN  IF s1 # s2 THEN s1 - s2 ELSE cmp_from(self, other, seg + 1)
    ELSE IF seg <= Len(other) THEN -1 ELSE 0

\* cmp with other answers where one Version runs out of segments
RECURSIVE cmp_from_lengths(_, _, _, _, _)
cmp_from_lengths(self, other, seg, other_ran_out, self_ran_out) ==
    IF seg <= Len(self)
    THEN IF seg > Len(other) THEN other_ran_out
         ELSE LET s1 == int(self[seg])
                  s2 == int(other[seg])
              IN  IF s1 # s2 THEN s1 - s2
                  ELSE cmp_from_lengths(self, other, seg + 1, other_ran_out, self_ran_out)
    ELSE IF seg <= Len(other) THEN self_ran_out ELSE 0

cmp_no_deficit(self, other) == cmp_from_lengths(self, other, 1, 1, 0)

cmp_shorter_greater(self, other) == cmp_from_lengths(self, other, 1, -1, 1)

cmp(self, other) == cmp_from(self, other, 1)

lt(a, b) == cmp(a, b) < 0

gt(a, b) == cmp(a, b) > 0

eq(a, b) == cmp(a, b) = 0

in_range_sentinel_compared(self, vmin, vmax) ==
    IF lt(self, vmin) THEN FALSE
    ELSE IF gt(self, vmax) THEN FALSE
    ELSE TRUE

in_range(self, vmin, vmax) ==
    IF ~empty(vmin) /\ lt(self, vmin) THEN FALSE
    ELSE IF ~empty(vmax) /\ gt(self, vmax) THEN FALSE
    ELSE TRUE

\* A dict keyed by Versions is a function whose domain holds the key objects.
\* Two keys are the same entry when they hash alike and compare equal.
SameKey(a, b) == hash(a) = hash(b) /\ eq(a, b)

DictHas(d, k) == \E key \in DOMAIN d : SameKey(key, k)

DictSet(d, k, val) ==
    IF DictHas(d, k)
    THEN [d EXCEPT ![CHOOSE key \in DOMAIN d : SameKey(key, k)] = val]
    ELSE [key \in DOMAIN d \cup {k} |-> IF key = k THEN val ELSE d[key]]

\* ------------------------------------------------------------------ Patch
Patch(url) ==
    [url |-> url, sha |-> "", author |-> "", date |-> "", subject |-> "",
     files |-> <<>>, text |-> FALSE]

\* What the remote serves at each url: whether the content has an envelope
\* ("From ") line, and the fields the message parser finds in it.
Remote ==
    [u \in {"u1", "u2", "u3", "u4"} |->
        CASE u = "u1" -> [env |-> TRUE, sha |-> "c1", author |-> "ann", date |-> "d1",
                          subject |-> "Fix A", files |-> <<"f1">>]
          [] u = "u2" -> [env |-> TRUE, sha |-> "c2", author |-> "bob", date |-> "d2",
                          subject |-> "Fix B", files |-> <<"f1", "f2">>]
          [] u = "u3" -> [env |-> TRUE, sha |-> "c3", author |-> "cat", date |-> "d3",
                          subject |-> "Fix C", files |-> <<"f3">>]
          [] u = "u4" -> [env |-> FALSE, sha |-> "", author |-> "", date |-> "",
                          subject |-> "", files |-> <<>>]]

\* Whether _fetch goes to the remote
needs_get(p) == Len(p.sha) = 0

\* _fetch once the remote has answered with content r
fetch_done(p, r) ==
    IF ~needs_get(p) THEN p
    ELSE IF ~r.env THEN [p EXCEPT !.text = TRUE]
    ELSE [p EXCEPT !.text = TRUE, !.sha = r.sha, !.author = r.author, !.date = r.date,
                   !.subject = r.subject, !.files = p.files \o r.files]

_fetch(p) == fetch_done(p, Remote[p.url])

in_git_history_reverts_ignored(p, history) == p.subject \in DOMAIN history

in_git_history(p, history) ==
    IF p.subject \in DOMAIN history
    THEN IF ("Revert: " \o p.subject) \in DOMAIN history THEN FALSE ELSE TRUE
    ELSE FALSE

\* ------------------------------------------------------------------- Vuln
PadWidth == 9

\* "%09d" % i
fmt_09d_unpadded(i) == fmt_d(i)

fmt_09d(i) ==
    LET d == fmt_d(i)
    IN  IF Len(d) >= PadWidth THEN d ELSE [k \in 1..(PadWidth - Len(d)) |-> "0"] \o d

\* end of the alphanumeric run of name that starts at pos
RECURSIVE run_end(_, _)
run_end(name, end) ==
    IF end <= Len(name) /\ isalnum(name[end]) THEN run_end(name, end + 1) ELSE end

RECURSIVE sort_key_from(_, _)
sort_key_from(name, pos) ==
    IF pos > Len(name) THEN <<>>
    ELSE IF ~isalnum(name[pos]) THEN <<name[pos]>> \o sort_key_from(name, pos + 1)
    ELSE LET end == run_end(name, pos)
             field == SubSeq(name, pos, end - 1)
         IN  (IF \A i \in 1..Len(field) : field[i] \in DigitSet
              THEN fmt_09d(int(field))
              ELSE lower(field)) \o sort_key_from(name, end)

sort_key(name) == sort_key_from(name, 1)

RECURSIVE patches_from(_, _)
patches_from(patch_list, n) ==
    IF n = 0 THEN <<>>
    ELSE DictSet(patches_from(patch_list, n - 1),
                 Version(patch_list[n].version), Patch(patch_list[n].url))

\* Vuln.__init__ on the parsed detail document x
Vuln(x) ==
    [applied |-> FALSE, action |-> "None", name |-> x.name,
     version_min |-> Version(x.version_min), version_max |-> Version(x.version_max),
     source |-> x.source, key |-> sort_key(x.name),
     patches |-> patches_from(x.patch_list, Len(x.patch_list))]

\* string comparison a < b
RECURSIVE str_lt(_, _)
str_lt(a, b) ==
    IF Len(b) = 0 THEN FALSE
    ELSE IF Len(a) = 0 THEN TRUE
    ELSE IF ord(a[1]) # ord(b[1]) THEN ord(a[1]) < ord(b[1])
    ELSE str_lt(Tail(a), Tail(b))

\* one insertion of a stable sort: v goes after every element not greater
RECURSIVE insert_sorted(_, _)
insert_sorted(s, v) ==
    IF Len(s) = 0 THEN <<v>>
    ELSE IF str_lt(v.key, s[1].key) THEN <<v>> \o s
    ELSE <<s[1]>> \o insert_sorted(Tail(s), v)

RECURSIVE sorted(_)
sorted(s) ==
    IF Len(s) = 0 THEN <<>>
    ELSE insert_sorted(sorted(SubSeq(s, 1, Len(s) - 1)), s[Len(s)])

\* ------------------------------------------------------ the environment
s4 == <<"4">>

s318 == <<"3", ".", "1", "8">>

s44 == <<"4", ".", "4">>

s49 == <<"4", ".", "9">>

s409 == <<"4", ".", "0", "9">>

s414 == <<"4", ".", "1", "4">>

s419 == <<"4", ".", "1", "9">>

s50 == <<"5", ".", "0">>

\* The advisory detail documents the feed can serve.
Details ==
    { [name |-> <<"C", "V", "E", "-", "9">>, version_min |-> s44, version_max |-> s414,
       source |-> "", patch_list |-> <<[version |-> s49, url |-> "u1"]>>],
      [name |-> <<"C", "V", "E", "-", "1", "0">>, version_min |-> <<>>, version_max |-> <<>>,
       source |-> "mainline",
       patch_list |-> <<[version |-> s44, url |-> "u2"], [version |-> s419, url |-> "u3"],
                        [version |-> s318, url |-> "u1"], [version |-> s50, url |-> "u4"]>>],
      [name |-> <<"C", "V", "E", "-", "2">>, version_min |-> <<>>, version_max |-> s414,
       source |-> "",
       patch_list |-> <<[version |-> s419, url |-> "u3"], [version |-> s49, url |-> "u4"],
                        [version |-> s44, url |-> "u1"]>>],
      [name |-> <<"c", "v", "e", "-", "3">>, version_min |-> s4, version_max |-> <<>>,
       source |-> "", patch_list |-> <<[version |-> s409, url |-> "u2"]>>],
      [name |-> <<"C", "V", "E", "-", "4">>, version_min |-> s50, version_max |-> <<>>,
       source |-> "", patch_list |-> <<[version |-> s49, url |-> "u1"]>>],
      [name |-> <<"C", "V", "E", "-", "5">>, version_min |-> <<>>, version_max |-> <<>>,
       source |-> "caf", patch_list |-> <<[version |-> s49, url |-> "u1"]>>],
      [name |-> <<"C", "V", "E", "-", "6">>, version_min |-> <<>>, version_max |-> <<>>,
       source |-> "", patch_list |-> <<>>],
      [name |-> <<"C", "V", "E", "-", "7">>, version_min |-> s318, version_max |-> s44,
       source |-> "", patch_list |-> <<[version |-> s44, url |-> "u2"]>>] }

\* The feeds: the detail documents of distinct advisories, in any order.
Feeds ==
    UNION { {f \in [1..n -> Details] : \A i, j \in 1..n : i # j => f[i].name # f[j].name}
            : n \in 1..MaxVulns }

\* The outputs of `git log --oneline --no-merges`, newest commit first.
GitLogs ==
    { <<[sha |-> "a3", subject |-> "Revert: Fix C"], [sha |-> "a2", subject |-> "Fix C"],
        [sha |-> "a1", subject |-> "Fix B"]>>,
      <<[sha |-> "b3", subject |-> "Revert: Fix B"], [sha |-> "b2", subject |-> "Fix B"],
        [sha |-> "b1", subject |-> "Fix A"]>> }

\* What the operator may type at the skip/applied prompt.
Replies == {<<>>, <<"s">>, <<"S", "x">>, <<"a">>, <<"A">>, <<"x">>, <<"x", "s">>}

get_kernel_version(v_major, v_minor) == Version(fmt_d(v_major) \o <<".">> \o fmt_d(v_minor))

\* The capability set found in a tree where the paths in exists exist.
ksources_of(exists) ==
    {"mainline"} \cup (IF "drivers/staging/android" \in exists THEN {"android"} ELSE {})
                 \cup (IF "drivers/misc/qcom" \in exists THEN {"caf"} ELSE {})

RECURSIVE history_of(_, _)
history_of(log, n) ==
    IF n = 0 THEN <<>>
    ELSE LET h == history_of(log, n - 1)
         IN  [s \in DOMAIN h \cup {log[n].subject} |->
                 IF s = log[n].subject THEN log[n].sha ELSE h[s]]

\* ------------------------------------------------------------------ state
VARIABLES
    pc,           \* where the program is
    cfg,          \* cfg['dry-run'], cfg['ni']
    kver,         \* the tree's version
    ksources,     \* the tree's capability set
    gitlog,       \* what git log has yet to print
    git_history,  \* subject -> sha
    feed,         \* the detail documents yet to be read, in feed order
    vuln_list,    \* the Vuln objects, sorted
    idx,          \* index in vuln_list of the advisory of this iteration
    pver,         \* the patch key process() was called with
    ret,          \* the call site of process(): "exact", "forward", "backward"
    togo,         \* keys the catalog listing has not printed yet
    reply,        \* the operator's reply in the main loop
    bad,          \* replies so far that were neither skip nor applied
    tree,         \* the mutations made to the working tree and repository
    trace,        \* what was called for the advisory of this iteration
    call          \* a library function called on its own: its arguments and result

vars == <<pc, cfg, kver, ksources, gitlog, git_history, feed, vuln_list, idx, pver, ret,
          togo, reply, bad, tree, trace, call>>

env == <<cfg, kver, ksources, gitlog, feed, call>>

NoCall == [fn |-> "", args |-> <<>>, out |-> <<>>]

NoVer == <<<<"-">>>>

\* An entry of trace: the call, the patch key it was made on, its outcome,
\* what the operator typed (for a prompt), and how many mutations the tree
\* had seen when the call was made.  For "process" the outcome is the
\* advisory's applied flag on entry.
Ev(op, ver, res) == [op |-> op, ver |-> ver, res |-> res, raw |-> <<>>, at |-> Len(tree)]

Log(op, ver, res) == trace' = Append(trace, Ev(op, ver, res))

vuln == vuln_list[idx]

patch == vuln.patches[pver]

Init ==
    /\ pc = "get_git_history"
    /\ cfg \in [dry_run : BOOLEAN, ni : BOOLEAN]
    /\ kver = get_kernel_version(4, 9)
    /\ ksources = ksources_of({"drivers/staging/android"})
    /\ gitlog \in GitLogs
    /\ git_history = <<>>
    /\ feed \in Feeds
    /\ vuln_list = <<>>
    /\ idx = 0
    /\ pver = NoVer
    /\ ret = ""
    /\ togo = {}
    /\ reply = <<>>
    /\ bad = 0
    /\ tree = <<>>
    /\ trace = <<>>
    /\ call = NoCall

\* ------------------------------------------------------------- start-up
\* get_git_history(): every line read goes into the dict, then the exit
\* status of git log decides whether the run goes on.
after_git_log_ignored(rc) == "get_vuln_list"

after_git_log(rc) == IF rc # 0 THEN "aborted" ELSE "get_vuln_list"

GetGitHistory ==
    /\ pc = "get_git_history"
    /\ git_history' = history_of(gitlog, Len(gitlog))
    /\ gitlog' = <<>>
    /\ \E rc \in {0, 128} :
          /\ pc' = after_git_log(rc)
          /\ Log("git_log", NoVer, rc = 0)
    /\ UNCHANGED <<cfg, kver, ksources, feed, vuln_list, idx, pver, ret, togo, reply, bad,
                   tree, call>>

\* get_vuln_list(): one Vuln per feed element, sorted by key; a failed
\* request raises.
GetVulnList ==
    /\ pc = "get_vuln_list"
    /\ \E ok \in BOOLEAN :
          IF ok
          THEN /\ vuln_list' = sorted([i \in 1..Len(feed) |-> Vuln(feed[i])])
               /\ feed' = <<>>
               /\ pc' = "loop"
          ELSE /\ pc' = "aborted"
               /\ UNCHANGED <<vuln_list, feed>>
    /\ UNCHANGED <<cfg, kver, ksources, gitlog, git_history, idx, pver, ret, togo, reply, bad,
                   tree, trace, call>>

\* ------------------------------------------------------------ main loop
\* for vuln in vuln_list
LoopNext ==
    /\ pc = "loop"
    /\ IF idx < Len(vuln_list)
       THEN /\ idx' = idx + 1
            /\ pc' = "filter"
            /\ trace' = <<>>
       ELSE /\ pc' = "done"
            /\ UNCHANGED <<idx, trace>>
    /\ UNCHANGED <<env, git_history, vuln_list, pver, ret, togo, reply, bad, tree>>

\* not_applicable with the source test dropped
not_applicable_no_source(v) ==
    \/ ~in_range(kver, v.version_min, v.version_max)
    \/ Cardinality(DOMAIN v.patches) = 0

\* The three tests that end the iteration with `continue`
not_applicable(v) ==
    \/ ~in_range(kver, v.version_min, v.version_max)
    \/ (v.source # "" /\ v.source \notin ksources)
    \/ Cardinality(DOMAIN v.patches) = 0

Filter ==
    /\ pc = "filter"
    /\ Log("filter", NoVer, ~not_applicable(vuln))
    /\ pc' = IF not_applicable(vuln) THEN "loop" ELSE "select"
    /\ UNCHANGED <<env, git_history, vuln_list, idx, pver, ret, togo, reply, bad, tree>>

\* The orders in which `for k in patches` may visit the keys
Orders(d) ==
    {o \in [1..Cardinality(DOMAIN d) -> DOMAIN d] :
        \A i, j \in 1..Cardinality(DOMAIN d) : i # j => o[i] # o[j]}

\* forward_scan keeping the least key below the current version
RECURSIVE forward_scan_least(_, _)
forward_scan_least(order, n) ==
    IF n = 0 THEN <<>>
    ELSE LET found == forward_scan_least(order, n - 1)
             k == order[n]
         IN  IF ~lt(k, kver) THEN found
             ELSE IF found = <<>> \/ lt(k, found[1]) THEN <<k>>
             ELSE found

\* The forward-port loop over the first n keys of order: <<>> is None
RECURSIVE forward_scan(_, _)
forward_scan(order, n) ==
    IF n = 0 THEN <<>>
    ELSE LET found == forward_scan(order, n - 1)
             k == order[n]
         IN  IF ~lt(k, kver) THEN found
             ELSE IF found = <<>> \/ gt(k, found[1]) THEN <<k>>
             ELSE found

\* The backward-port loop over the first n keys of order: <<>> is ''
RECURSIVE backward_scan(_, _)
backward_scan(order, n) ==
    IF n = 0 THEN <<>>
    ELSE LET found == backward_scan(order, n - 1)
             k == order[n]
         IN  IF ~gt(k, kver) THEN found
             ELSE IF found = <<>> \/ lt(k, found[1]) THEN <<k>>
             ELSE found

\* vuln.process(ver) is entered from call site site
Call(ver, site) ==
    /\ pver' = CHOOSE key \in DOMAIN vuln.patches : SameKey(key, ver)
    /\ ret' = site
    /\ pc' = "can_reverse"
    /\ Log("process", ver, vuln.applied)

\* if kver in patches: process(kver); else: the forward-port search
Select ==
    /\ pc = "select"
    /\ IF DictHas(vuln.patches, kver)
       THEN Call(kver, "exact")
       ELSE IF ~vuln.applied
            THEN \E order \in Orders(vuln.patches) :
                    LET found == forward_scan(order, Len(order))
                    IN  IF found # <<>>
                        THEN Call(found[1], "forward")
                        ELSE /\ pc' = "backward"
                             /\ UNCHANGED <<pver, ret, trace>>
            ELSE /\ pc' = "backward"
                 /\ UNCHANGED <<pver, ret, trace>>
    /\ UNCHANGED <<env, git_history, vuln_list, idx, togo, reply, bad, tree>>

\* if not vuln.applied(): the backward-port search
Backward ==
    /\ pc = "backward"
    /\ IF ~vuln.applied
       THEN \E order \in Orders(vuln.patches) :
               LET found == backward_scan(order, Len(order))
               IN  IF found # <<>>
                   THEN Call(found[1], "backward")
                   ELSE /\ pc' = "report"
                        /\ UNCHANGED <<pver, ret, trace>>
       ELSE /\ pc' = "report"
            /\ UNCHANGED <<pver, ret, trace>>
    /\ UNCHANGED <<env, git_history, vuln_list, idx, togo, reply, bad, tree>>

\* --------------------------------------------------------- Vuln.process
\* What a step of process() leads to: a return with the two status fields
\* set, the next step, or an exception that nothing catches.
Return(applied, action) == [kind |-> "return", pc |-> "", applied |-> applied, action |-> action]

Goto(next) == [kind |-> "goto", pc |-> next, applied |-> FALSE, action |-> ""]

Raise == [kind |-> "raise", pc |-> "aborted", applied |-> FALSE, action |-> ""]

\* if patch.can_reverse(): ...
on_can_reverse(b) == IF b THEN Return(TRUE, "Already applied") ELSE Goto("in_git_history")

\* on_in_git_history with the history test dropped
on_in_git_history_ignored(b) == Goto("can_apply")

\* if patch.in_git_history(): ...
on_in_git_history(b) == IF b THEN Return(TRUE, "In git history") ELSE Goto("can_apply")

\* on_can_apply with the dry-run test dropped
on_can_apply_ignores_dry_run(b, dry_run) ==
    IF b THEN Goto("git_am") ELSE Return(FALSE, "Cannot apply")

\* on_can_apply with the dry-run verdicts exchanged
on_can_apply_dry_inverted(b, dry_run) ==
    IF dry_run
    THEN IF ~b THEN Return(TRUE, "Can apply") ELSE Return(FALSE, "Cannot apply")
    ELSE IF b THEN Goto("git_am") ELSE Return(FALSE, "Cannot apply")

\* on_can_apply with the forward probe ignored outside a dry run
on_can_apply_unprobed(b, dry_run) ==
    IF dry_run
    THEN IF b THEN Return(TRUE, "Can apply") ELSE Return(FALSE, "Cannot apply")
    ELSE Goto("git_am")

\* if cfg['dry-run']: ... / if patch.can_apply(): ... / the final Cannot apply
on_can_apply(b, dry_run) ==
    IF dry_run
    THEN IF b THEN Return(TRUE, "Can apply") ELSE Return(FALSE, "Cannot apply")
    ELSE IF b THEN Goto("git_am") ELSE Return(FALSE, "Cannot apply")

\* on_git_am with the non-interactive test dropped
on_git_am_ignores_ni(ok, ni) ==
    IF ok THEN Return(TRUE, "Applied cleanly") ELSE Goto("apply")

\* on_git_am with the skipped patch marked as applied
on_git_am_skipped_applied(ok, ni) ==
    IF ok THEN Return(TRUE, "Applied cleanly")
    ELSE IF ni THEN Return(TRUE, "Skipped")
    ELSE Goto("apply")

\* try: patch.git_am() ... except RuntimeError: if cfg['ni']: ...
on_git_am(ok, ni) ==
    IF ok THEN Return(TRUE, "Applied cleanly")
    ELSE IF ni THEN Return(FALSE, "Skipped")
    ELSE Goto("apply")

\* patch.apply() inside the except block, then the first get_input
on_apply(ok) == IF ok THEN Goto("verify") ELSE Raise

\* on_git_add without the pause after a failure
on_git_add_no_pause(ok) == Goto("am_continue")

\* git add: on failure a second get_input
on_git_add(ok) == IF ok THEN Goto("am_continue") ELSE Goto("add_prompt")

\* git am --continue: on failure a third get_input; then Applied manually
on_am_continue(ok) == IF ok THEN Return(TRUE, "Applied manually") ELSE Goto("merge_prompt")

\* what follows each get_input of process()
on_input(at) ==
    CASE at = "verify" -> Goto("git_add")
      [] at = "add_prompt" -> Goto("am_continue")
      [] at = "merge_prompt" -> Return(TRUE, "Applied manually")

\* where process() returns to: the forward-port call is followed by the
\* backward-port test, the other two by the report
after_process(site) == IF site = "forward" THEN "backward" ELSE "report"

\* The outcome o takes effect; p is the patch object as the step left it.
Step(o, p) ==
    /\ pc' = IF o.kind = "return" THEN after_process(ret) ELSE o.pc
    /\ vuln_list' =
          IF o.kind = "return"
          THEN [vuln_list EXCEPT ![idx].patches[pver] = p,
                                 ![idx].applied = o.applied,
                                 ![idx].action = o.action]
          ELSE [vuln_list EXCEPT ![idx].patches[pver] = p]

\* The requests _fetch makes when a method of p calls it
Gets(p) == IF needs_get(p) THEN <<Ev("GET", pver, TRUE)>> ELSE <<>>

FetchingPcs == {"can_reverse", "in_git_history", "can_apply", "git_am", "apply", "git_add"}

\* r.raise_for_status() raises in the _fetch of the method about to run
ProcFetchFails ==
    /\ pc \in FetchingPcs
    /\ needs_get(patch)
    /\ pc' = "aborted"
    /\ Log("GET", pver, FALSE)
    /\ UNCHANGED <<env, git_history, vuln_list, idx, pver, ret, togo, reply, bad, tree>>

ProcCanReverse ==
    /\ pc = "can_reverse"
    /\ \E b \in BOOLEAN :
          /\ trace' = trace \o Gets(patch) \o <<Ev("can_reverse", pver, b)>>
          /\ Step(on_can_reverse(b), _fetch(patch))
    /\ UNCHANGED <<env, git_history, idx, pver, ret, togo, reply, bad, tree>>

ProcInGitHistory ==
    /\ pc = "in_git_history"
    /\ LET p == _fetch(patch)
           b == in_git_history(p, git_history)
       IN  /\ trace' = trace \o Gets(patch) \o <<Ev("in_git_history", pver, b)>>
           /\ Step(on_in_git_history(b), p)
    /\ UNCHANGED <<env, git_history, idx, pver, ret, togo, reply, bad, tree>>

ProcCanApply ==
    /\ pc = "can_apply"
    /\ \E b \in BOOLEAN :
          /\ trace' = trace \o Gets(patch) \o <<Ev("can_apply", pver, b)>>
          /\ Step(on_can_apply(b, cfg.dry_run), _fetch(patch))
    /\ UNCHANGED <<env, git_history, idx, pver, ret, togo, reply, bad, tree>>

ProcGitAm ==
    /\ pc = "git_am"
    /\ \E ok \in BOOLEAN :
          /\ trace' = trace \o Gets(patch) \o <<Ev("git_am", pver, ok)>>
          /\ tree' = IF ok THEN Append(tree, [op |-> "git_am", url |-> patch.url]) ELSE tree
          /\ Step(on_git_am(ok, cfg.ni), _fetch(patch))
    /\ UNCHANGED <<env, git_history, idx, pver, ret, togo, reply, bad>>

\* patch --force changes what it can even when it ends with an error
ProcApply ==
    /\ pc = "apply"
    /\ \E ok \in BOOLEAN :
          /\ trace' = trace \o Gets(patch) \o <<Ev("apply", pver, ok)>>
          /\ \/ tree' = Append(tree, [op |-> "apply", url |-> patch.url])
             \/ ~ok /\ tree' = tree
          /\ Step(on_apply(ok), _fetch(patch))
    /\ UNCHANGED <<env, git_history, idx, pver, ret, togo, reply, bad>>

\* get_input("  Please verify and press enter to continue...") returns
ProcVerify ==
    /\ pc = "verify"
    /\ Log("input_verify", pver, TRUE)
    /\ Step(on_input("verify"), patch)
    /\ UNCHANGED <<env, git_history, idx, pver, ret, togo, reply, bad, tree>>

ProcGitAdd ==
    /\ pc = "git_add"
    /\ \E ok \in BOOLEAN :
          /\ trace' = trace \o Gets(patch) \o <<Ev("git_add", pver, ok)>>
          /\ tree' = IF ok THEN Append(tree, [op |-> "git_add", url |-> patch.url]) ELSE tree
          /\ Step(on_git_add(ok), _fetch(patch))
    /\ UNCHANGED <<env, git_history, idx, pver, ret, togo, reply, bad>>

\* get_input("  Please add/remove files and press enter: ") returns
ProcAddPrompt ==
    /\ pc = "add_prompt"
    /\ Log("input_add", pver, TRUE)
    /\ Step(on_input("add_prompt"), patch)
    /\ UNCHANGED <<env, git_history, idx, pver, ret, togo, reply, bad, tree>>

ProcAmContinue ==
    /\ pc = "am_continue"
    /\ \E ok \in BOOLEAN :
          /\ Log("am_continue", pver, ok)
          /\ tree' = IF ok THEN Append(tree, [op |-> "am_continue", url |-> patch.url]) ELSE tree
          /\ Step(on_am_continue(ok), patch)
    /\ UNCHANGED <<env, git_history, idx, pver, ret, togo, reply, bad>>

\* get_input("  Please complete merge and press enter: ") returns
ProcMergePrompt ==
    /\ pc = "merge_prompt"
    /\ Log("input_merge", pver, TRUE)
    /\ Step(on_input("merge_prompt"), patch)
    /\ UNCHANGED <<env, git_history, idx, pver, ret, togo, reply, bad, tree>>

\* ------------------------------------------------- the operator decision
\* if vuln.applied(): next advisory; else the catalog is listed
Report ==
    /\ pc = "report"
    /\ IF vuln.applied
       THEN pc' = "loop" /\ togo' = togo
       ELSE pc' = "catalog" /\ togo' = DOMAIN vuln.patches
    /\ UNCHANGED <<env, git_history, vuln_list, idx, pver, ret, reply, bad, tree, trace>>

\* One turn of `for k in patches`: subject() and url() each call _fetch.
CatalogEntry ==
    /\ pc = "catalog"
    /\ \E k \in togo :
          LET p0 == vuln.patches[k]
              p1 == _fetch(p0)
              p2 == _fetch(p1)
          IN  /\ vuln_list' = [vuln_list EXCEPT ![idx].patches[k] = p2]
              /\ trace' = trace \o (IF needs_get(p0) THEN <<Ev("GET", k, TRUE)>> ELSE <<>>)
                                \o (IF needs_get(p1) THEN <<Ev("GET", k, TRUE)>> ELSE <<>>)
              /\ togo' = togo \ {k}
    /\ UNCHANGED <<env, git_history, pc, idx, pver, ret, reply, bad, tree>>

\* r.raise_for_status() raises while the catalog is listed
CatalogFetchFails ==
    /\ pc = "catalog"
    /\ \E k \in togo :
          /\ needs_get(vuln.patches[k])
          /\ Log("GET", k, FALSE)
    /\ pc' = "aborted"
    /\ UNCHANGED <<env, git_history, vuln_list, idx, pver, ret, togo, reply, bad, tree>>

\* reply = ''; if cfg['ni']: reply = 's'
CatalogDone ==
    /\ pc = "catalog"
    /\ togo = {}
    /\ reply' = IF cfg.ni THEN <<"s">> ELSE <<>>
    /\ pc' = "decide"
    /\ UNCHANGED <<env, git_history, vuln_list, idx, pver, ret, togo, bad, tree, trace>>

\* while reply != 'a' and reply != 's'
Decide ==
    /\ pc = "decide"
    /\ pc' = IF reply # <<"a">> /\ reply # <<"s">> THEN "get_input" ELSE "loop"
    /\ UNCHANGED <<env, git_history, vuln_list, idx, pver, ret, togo, reply, bad, tree, trace>>

\* normalise without the default for an empty line
normalise_no_default(raw) == IF Len(raw) > 0 THEN <<lowerChar(raw[1])>> ELSE <<>>

\* The reply the loop keeps of what the operator typed
normalise(raw) == IF Len(raw) > 0 THEN <<lowerChar(raw[1])>> ELSE <<"s">>

\* get_input("  Please apply manually. [S]kip or [A]pplied: ") returns raw
GetInput ==
    /\ pc = "get_input"
    /\ \E raw \in Replies :
          /\ normalise(raw) \in {<<"a">>, <<"s">>} \/ bad < MaxBadReplies
          /\ bad' = IF normalise(raw) \in {<<"a">>, <<"s">>} THEN bad ELSE bad + 1
          /\ reply' = normalise(raw)
          /\ trace' = Append(trace, [Ev("input_decide", NoVer, TRUE) EXCEPT !.raw = raw])
    /\ pc' = "decide"
    /\ UNCHANGED <<env, git_history, vuln_list, idx, pver, ret, togo, tree>>

Next ==
    \/ GetGitHistory
    \/ GetVulnList
    \/ LoopNext
    \/ Filter
    \/ Select
    \/ Backward
    \/ ProcFetchFails
    \/ ProcCanReverse
    \/ ProcInGitHistory
    \/ ProcCanApply
    \/ ProcGitAm
    \/ ProcApply
    \/ ProcVerify
    \/ ProcGitAdd
    \/ ProcAddPrompt
    \/ ProcAmContinue
    \/ ProcMergePrompt
    \/ Report
    \/ CatalogEntry
    \/ CatalogFetchFails
    \/ CatalogDone
    \/ Decide
    \/ GetInput

Spec == Init /\ [][Next]_vars

\* ------------------------------------------- the library on its own
\* The classes and functions of the file called directly, one call at a
\* time, on arguments drawn from small sets; the program itself stays where
\* it is.  None of them keeps state between calls, so one call is made.
MaxSegs == 2

Segs == {<<"9">>, <<"0", "9">>, <<"1", "0">>}

\* the version strings of up to MaxSegs segments, "" included
VerStrings ==
    {join(".", parts) : parts \in UNION {[1..n -> Segs] : n \in 0..MaxSegs}}

NamePrefixes == {<<"C", "V", "E", "-">>, <<"C", "V", "E">>}

NameSuffixes == {<<>>, <<"-", "1">>, <<"x">>}

NameNumbers ==
    {<<"2">>, <<"9">>, <<"1", "0">>, <<"9", "9", "9", "9", "9", "9", "9", "9", "9">>,
     <<"1", "0", "0", "0", "0", "0", "0", "0", "0", "0">>}

program == <<pc, cfg, kver, ksources, gitlog, git_history, feed, vuln_list, idx, pver, ret,
             togo, reply, bad, tree, trace>>

UnitInit ==
    /\ pc = "import"
    /\ cfg = [dry_run |-> FALSE, ni |-> FALSE]
    /\ kver = <<>>
    /\ ksources = {}
    /\ gitlog = <<>>
    /\ git_history = <<>>
    /\ feed = <<>>
    /\ vuln_list = <<>>
    /\ idx = 0
    /\ pver = NoVer
    /\ ret = ""
    /\ togo = {}
    /\ reply = <<>>
    /\ bad = 0
    /\ tree = <<>>
    /\ trace = <<>>
    /\ call = NoCall

\* a.cmp(b) for every pair of three Versions
CallCmp ==
    /\ call = NoCall
    /\ \E a, b, c \in VerStrings :
          LET v == <<Version(a), Version(b), Version(c)>>
          IN  call' = [fn |-> "cmp", args |-> v,
                       out |-> [p \in (1..3) \X (1..3) |-> cmp(v[p[1]], v[p[2]])]]
    /\ UNCHANGED program

\* x.in_range(vmin, vmax)
CallInRange ==
    /\ call = NoCall
    /\ \E x, vmin, vmax \in VerStrings :
          LET v == <<Version(x), Version(vmin), Version(vmax)>>
          IN  call' = [fn |-> "in_range", args |-> v, out |-> in_range(v[1], v[2], v[3])]
    /\ UNCHANGED program

\* the patch dict of a Vuln built from a patch_list, and `cur in patches`
CallLookup ==
    /\ call = NoCall
    /\ \E n \in 1..2 : \E vs \in [1..n -> VerStrings] : \E cur \in VerStrings :
          LET patch_list == [i \in 1..n |-> [version |-> vs[i], url |-> "u1"]]
              patches == patches_from(patch_list, n)
          IN  call' = [fn |-> "lookup",
                       args |-> [keys |-> [i \in 1..n |-> Version(vs[i])], cur |-> Version(cur)],
                       out |-> [patches |-> patches, found |-> DictHas(patches, Version(cur))]]
    /\ UNCHANGED program

\* sorted() of the Vulns built from a feed of two names that differ in
\* one run of digits
CallSorted ==
    /\ call = NoCall
    /\ \E pre \in NamePrefixes, suf \in NameSuffixes, n1, n2 \in NameNumbers :
          LET doc(num) == [name |-> pre \o num \o suf, version_min |-> <<>>,
                           version_max |-> <<>>, source |-> "", patch_list |-> <<>>]
              list == sorted(<<Vuln(doc(n1)), Vuln(doc(n2))>>)
          IN  call' = [fn |-> "sorted",
                       args |-> [pre |-> pre, suf |-> suf, nums |-> <<n1, n2>>],
                       out |-> [i \in 1..2 |-> list[i].name]]
    /\ UNCHANGED program

UnitNext == CallCmp \/ CallInRange \/ CallLookup \/ CallSorted

UnitSpec == UnitInit /\ [][UnitNext]_vars

\* ------------------------------------------------- reading the trace
Mutators == {"git_am", "apply", "git_add", "am_continue"}

Probes == {"can_reverse", "in_git_history", "can_apply"}

Inputs == {"input_verify", "input_add", "input_merge", "input_decide"}

\* The positions of the main loop at which every process() call of the
\* iteration has returned
AfterSelection == {"report", "catalog", "decide", "get_input", "loop", "done"}

\* The advisory of this iteration got past the three `continue` tests.
Passed == idx >= 1 /\ Len(trace) >= 1 /\ trace[1].op = "filter" /\ trace[1].res

CallIdx == {i \in 1..Len(trace) : trace[i].op = "process"}

LastCall == CHOOSE i \in CallIdx : \A j \in CallIdx : j <= i

\* The last process() call of this iteration has returned.
Returned == pc \in AfterSelection \cup {"backward"} /\ CallIdx # {}

\* The entries of the last process() call
InCall == {i \in (LastCall + 1)..Len(trace) : trace[i].op \in Probes \cup Mutators \cup Inputs}

Did(op) == \E i \in InCall : trace[i].op = op

Got(op, b) == \E i \in InCall : trace[i].op = op /\ trace[i].res = b

\* The tree is as it was when the last process() call was entered.
CallLeftTree == Len(tree) = trace[LastCall].at

\* ---------------------------------------------------------------- claims
\* C1: in a dry-run run no mutating operation (integrated apply, mutating
\* apply, staging, merge finalization) is ever invoked, and the working tree
\* stays what it was at the start of the run.
Thm_C1_DryRunNeverMutates ==
    cfg.dry_run =>
        /\ tree = <<>>
        /\ \A i \in 1..Len(trace) : trace[i].op \notin Mutators
        /\ pc \notin Mutators \cup {"verify", "add_prompt", "merge_prompt"}

\* A dry run that found a patch it could apply and ran to its end.
Wit_C1_DryRunCanApply ==
    /\ cfg.dry_run
    /\ pc = "done"
    /\ \E i \in 1..Len(vuln_list) : vuln_list[i].action = "Can apply"

\* C2: process() first asks can_reverse and, if it is true, ends with
\* (applied, "Already applied"); only then it asks in_git_history and, if
\* that is true, ends with (applied, "In git history"); in both cases
\* nothing else is asked and the tree is left as it was, whatever the
\* dry-run and interactive flags are.
Thm_C2_AlreadyAppliedOracles ==
    Returned =>
        /\ trace[LastCall + 1].op \in {"GET", "can_reverse"}
        /\ Did("can_reverse")
        /\ Did("in_git_history") => Got("can_reverse", FALSE)
        /\ Got("can_reverse", TRUE) =>
              /\ vuln.applied /\ vuln.action = "Already applied"
              /\ CallLeftTree
              /\ InCall = {i \in InCall : trace[i].op = "can_reverse"}
        /\ Got("in_git_history", TRUE) =>
              /\ vuln.applied /\ vuln.action = "In git history"
              /\ CallLeftTree
              /\ InCall = {i \in InCall : trace[i].op \in {"can_reverse", "in_git_history"}}

\* An interactive, mutating run in which a patch was found in the history.
Wit_C2_InHistory ==
    /\ Returned /\ ~cfg.dry_run /\ ~cfg.ni
    /\ Got("can_reverse", FALSE) /\ Got("in_git_history", TRUE)
    /\ vuln.action = "In git history"

\* C3: in dry-run mode, when the patch neither reverses nor is in the
\* history, process() ends with (applied, "Can apply") if the forward dry
\* run succeeds and with (not applied, "Cannot apply") if it does not.
Thm_C3_DryRunVerdict ==
    (Returned /\ cfg.dry_run /\ Got("can_reverse", FALSE) /\ Got("in_git_history", FALSE)) =>
        \/ Got("can_apply", TRUE) /\ vuln.applied /\ vuln.action = "Can apply"
        \/ Got("can_apply", FALSE) /\ ~vuln.applied /\ vuln.action = "Cannot apply"

\* A dry run whose forward probe failed, back in the main loop.
Wit_C3_DryRunCannotApply ==
    /\ Returned /\ cfg.dry_run /\ pc = "report"
    /\ Got("can_reverse", FALSE) /\ Got("in_git_history", FALSE) /\ Got("can_apply", FALSE)
    /\ vuln.action = "Cannot apply"

\* C4: when an advisory that passed the filter has a patch whose key equals
\* the current version, exactly that patch is processed and no other is
\* probed or applied.
Cex_C4_ExactMatchProcessed ==
    (Passed /\ pc \in AfterSelection /\ \E k \in DOMAIN vuln.patches : eq(k, kver)) =>
        /\ Cardinality(CallIdx) = 1
        /\ \A i \in 1..Len(trace) :
              trace[i].op \in {"process"} \cup Probes \cup Mutators => eq(trace[i].ver, kver)

\* The keys of this iteration's advisory below and above the current version
Below == {k \in DOMAIN vuln.patches : cmp(k, kver) < 0}

Above == {k \in DOMAIN vuln.patches : cmp(k, kver) > 0}

NoExactKey == \A k \in DOMAIN vuln.patches : cmp(k, kver) # 0

\* C5: with no key equal to the current version, the forward-port step
\* processes a greatest key below it if there is one; the backward-port step
\* runs only with the advisory still not applied, and then processes a least
\* key above the current version if there is one; at most two patches are
\* processed, the forward one first.
Thm_C5_ForwardThenBackward ==
    (Passed /\ pc \in AfterSelection /\ NoExactKey) =>
        /\ Cardinality(CallIdx) <= 2
        /\ \A i \in CallIdx : trace[i].ver \in Below \cup Above
        /\ Below # {} => \E i \in CallIdx : trace[i].ver \in Below
        /\ \A i \in CallIdx : trace[i].ver \in Below =>
              /\ \A k \in Below : cmp(k, trace[i].ver) <= 0
              /\ \A j \in CallIdx : j >= i
        /\ \A i \in CallIdx : trace[i].ver \in Above =>
              /\ \A k \in Above : cmp(k, trace[i].ver) >= 0
              /\ \A j \in CallIdx : j <= i
              /\ ~trace[i].res
        /\ (Above # {} /\ \A i \in CallIdx : trace[i].ver \notin Above) => vuln.applied

\* Both steps ran: the forward port left the advisory not applied.
Wit_C5_BothPorts ==
    /\ Passed /\ pc = "report" /\ NoExactKey
    /\ Cardinality(CallIdx) = 2
    /\ Cardinality(Below) = 2 /\ Cardinality(Above) = 2

\* The three reasons the claim gives for skipping advisory v
SkipReason(v) ==
    \/ ~empty(v.version_min) /\ cmp(kver, v.version_min) < 0
    \/ ~empty(v.version_max) /\ cmp(kver, v.version_max) > 0
    \/ v.source # "" /\ v.source \notin ksources
    \/ DOMAIN v.patches = {}

Untouched(v) ==
    /\ ~v.applied /\ v.action = "None"
    /\ \A k \in DOMAIN v.patches : v.patches[k] = Patch(v.patches[k].url)

\* C6: an advisory out of the version range, or with a source tag the tree
\* lacks, or without patches is skipped: no patch of it is fetched or
\* probed, the tree is not mutated, its applied/action stay (false, 'None')
\* and no prompt is shown.
Thm_C6_SkippedUntouched ==
    /\ \A j \in 1..idx : SkipReason(vuln_list[j]) => Untouched(vuln_list[j])
    /\ (idx >= 1 /\ SkipReason(vuln)) =>
          /\ pc \in {"filter", "loop", "done"}
          /\ \A i \in 1..Len(trace) : trace[i].op = "filter" /\ ~trace[i].res
          /\ Len(trace) >= 1 => Len(tree) = trace[1].at

\* An advisory with patches was skipped for its source tag alone.
Wit_C6_SkippedForSource ==
    /\ idx >= 1 /\ pc = "loop" /\ Len(trace) = 1
    /\ vuln.source = "caf" /\ DOMAIN vuln.patches # {}
    /\ in_range(kver, vuln.version_min, vuln.version_max)

\* C7: a non-interactive run never waits at a prompt; a failed integrated
\* apply ends the patch as (not applied, "Skipped") with no mutating apply,
\* staging or finalization after it, and an advisory that ends not applied
\* is skipped without asking.
Thm_C7_NonInteractiveNeverPrompts ==
    cfg.ni =>
        /\ pc \notin {"verify", "add_prompt", "merge_prompt", "get_input"}
        /\ \A i \in 1..Len(trace) : trace[i].op \notin Inputs
        /\ (Returned /\ Got("git_am", FALSE)) =>
              /\ ~vuln.applied /\ vuln.action = "Skipped"
              /\ ~Did("apply") /\ ~Did("git_add") /\ ~Did("am_continue")
              /\ CallLeftTree
        /\ (Passed /\ ~vuln.applied /\ pc \in {"decide", "loop"}) => reply = <<"s">>

\* A non-interactive run skipped a patch whose integrated apply failed and
\* moved on without asking.
Wit_C7_SkippedSilently ==
    /\ cfg.ni /\ pc = "loop" /\ Passed /\ Returned
    /\ Got("can_apply", TRUE) /\ Got("git_am", FALSE)
    /\ vuln.action = "Skipped"

\* C8 as stated: a failed staging or finalization is followed by a pause and
\* then by a finalization attempt, and "Applied manually" is reached only
\* after a finalization attempt has succeeded.
Cex_C8_FinalizationRetried ==
    (Returned /\ vuln.action = "Applied manually") =>
        /\ \A i \in InCall : (trace[i].op \in {"git_add", "am_continue"} /\ ~trace[i].res) =>
              \E j, k \in InCall :
                 i < j /\ j < k /\ trace[j].op \in Inputs /\ trace[k].op = "am_continue"
        /\ Got("am_continue", TRUE)

\* C8 amended: manual recovery stages once and attempts finalization once;
\* a failed staging is followed by a pause before the finalization attempt,
\* a failed finalization by a pause and no further attempt; "Applied
\* manually" follows whether or not the finalization attempt succeeded.
Thm_C8_FinalizationOnce ==
    (Returned /\ vuln.action = "Applied manually") =>
        /\ vuln.applied
        /\ Cardinality({i \in InCall : trace[i].op = "git_add"}) = 1
        /\ Cardinality({i \in InCall : trace[i].op = "am_continue"}) = 1
        /\ \A i, k \in InCall : (trace[i].op = "git_add" /\ trace[k].op = "am_continue") =>
              /\ i < k
              /\ ~trace[i].res <=> \E j \in InCall : i < j /\ j < k /\ trace[j].op = "input_add"
        /\ \A k \in InCall : trace[k].op = "am_continue" =>
              ~trace[k].res <=> \E j \in InCall : k < j /\ trace[j].op = "input_merge"

\* Staging and finalization both failed and the advisory is applied manually.
Wit_C8_BothFailed ==
    /\ Returned /\ vuln.action = "Applied manually"
    /\ Got("git_add", FALSE) /\ Got("am_continue", FALSE) /\ ~Got("am_continue", TRUE)

\* C9: a failure of an apply step after a successful dry run (the integrated
\* apply, or the mutating apply of manual recovery) never aborts the run.
Cex_C9_ApplyFailureNeverAborts ==
    (Len(trace) >= 1 /\ trace[Len(trace)].op \in {"git_am", "apply"} /\ ~trace[Len(trace)].res)
        => pc # "aborted"

\* What the operator typed names a decision: its first letter is s or a.
Explicit(raw) == Len(raw) > 0 /\ lowerChar(raw[1]) \in {"a", "s"}

InputIdx == {i \in 1..Len(trace) : trace[i].op = "input_decide"}

\* The interactive run has finished an advisory that passed the filter and
\* ended not applied.
DecidedInteractively == ~cfg.ni /\ pc = "loop" /\ Passed /\ ~vuln.applied

\* C10 as stated: in interactive mode the next advisory is not started
\* before the operator has explicitly replied skip or applied, and every
\* other reply brings the prompt back.
Cex_C10_ExplicitDecision ==
    DecidedInteractively =>
        /\ InputIdx # {}
        /\ \A i \in InputIdx : Explicit(trace[i].raw) <=> (\A j \in InputIdx : j <= i)

\* A reply that ends the prompt: an explicit one, or an empty line
Ends(raw) == Len(raw) = 0 \/ Explicit(raw)

\* C10 amended: in interactive mode the next advisory is not started before
\* the operator has given a reply that begins with s or a (in either case)
\* or an empty reply, which counts as skip; every other reply brings the
\* prompt back.
Thm_C10_DecisionOrEmpty ==
    /\ DecidedInteractively =>
          /\ InputIdx # {}
          /\ \A i \in InputIdx : Ends(trace[i].raw) <=> (\A j \in InputIdx : j <= i)
    /\ (~cfg.ni /\ pc = "get_input") => \A i \in InputIdx : ~Ends(trace[i].raw)

\* The operator first typed something else, was asked again and pressed
\* enter on an empty line.
Wit_C10_EmptyAfterRetry ==
    /\ DecidedInteractively
    /\ Cardinality(InputIdx) = 2
    /\ \E i \in InputIdx : Len(trace[i].raw) = 0


\* ---------------------------------------------------------------- C11
\* C11: the history index holds a key for every subject git log printed
\* from the moment get_git_history() returns, before any advisory is looked
\* at, and no later step changes it; when git log exits with a failure the
\* run stops there, with no advisory looked at, no patch probed and nothing
\* applied.
GitLogFailed == \E i \in 1..Len(trace) : trace[i].op = "git_log" /\ ~trace[i].res

HistoryBuilt ==
    /\ idx = 0
    /\ DOMAIN git_history' = {gitlog[i].subject : i \in 1..Len(gitlog)}
    /\ \A i \in 1..Len(gitlog) : \E j \in i..Len(gitlog) :
          /\ gitlog[j].subject = gitlog[i].subject
          /\ git_history'[gitlog[i].subject] = gitlog[j].sha

HistoryStep ==
    /\ pc # "aborted"
    /\ IF pc = "get_git_history" THEN HistoryBuilt ELSE git_history' = git_history

Thm_C11_HistoryBuiltOnce ==
    /\ [](GitLogFailed =>
            pc = "aborted" /\ idx = 0 /\ vuln_list = <<>> /\ tree = <<>> /\ Len(trace) = 1)
    /\ [][HistoryStep]_vars

Wit_C11_HistoryFailed == GitLogFailed /\ DOMAIN git_history # {}


\* ---------------------------------------------------------------- C12
\* C12: whatever calls were made on a patch of the advisory at hand and
\* whatever the remote answered, the content of that patch was requested
\* successfully at most once, and its derived fields are either all
\* unpopulated or all populated, with no file path listed twice.
Fetched(k) == {i \in 1..Len(trace) : trace[i].op = "GET" /\ trace[i].ver = k /\ trace[i].res}

Unpopulated(p) ==
    Len(p.sha) = 0 /\ Len(p.author) = 0 /\ Len(p.date) = 0 /\ Len(p.subject) = 0 /\ Len(p.files) = 0

Populated(p) ==
    /\ Len(p.sha) > 0 /\ Len(p.author) > 0 /\ Len(p.date) > 0 /\ Len(p.subject) > 0
    /\ \A i, j \in 1..Len(p.files) : p.files[i] = p.files[j] => i = j

Cex_C12_FetchedOnce ==
    idx >= 1 =>
        \A k \in DOMAIN vuln.patches :
            /\ Cardinality(Fetched(k)) <= 1
            /\ Unpopulated(vuln.patches[k]) \/ Populated(vuln.patches[k])


\* ---------------------------------------------------------------- C13
\* C13: in_git_history() answers true exactly when the subject of the patch
\* is a key of the history index and "Revert: " followed by that subject is
\* not; the call changes neither the history index nor the working tree.
InHistoryStep ==
    pc = "in_git_history" /\ pc' # "aborted" =>
        LET answer == trace'[Len(trace')]
            subject == vuln_list'[idx].patches[pver].subject
        IN  /\ answer.op = "in_git_history"
            /\ answer.res <=> /\ subject \in DOMAIN git_history
                              /\ ("Revert: " \o subject) \notin DOMAIN git_history
            /\ git_history' = git_history
            /\ tree' = tree

Thm_C13_InHistory == [][InHistoryStep]_vars

Wit_C13_Reverted ==
    /\ idx >= 1
    /\ \E i \in 1..Len(trace) :
          /\ trace[i].op = "in_git_history"
          /\ ~trace[i].res
          /\ vuln.patches[trace[i].ver].subject \in DOMAIN git_history


\* ---------------------------------------------------------------- C14
\* C14: x.in_range(vmin, vmax) is false exactly when vmin is not the empty
\* Version and x < vmin, or vmax is not the empty Version and x > vmax; with
\* both bounds empty it is true for every x, and an empty bound excludes
\* nothing: the answer is the one the other bound alone gives.
Thm_C14_InRange ==
    call.fn = "in_range" =>
        LET x == call.args[1]
            vmin == call.args[2]
            vmax == call.args[3]
            under == vmin # <<>> /\ cmp(x, vmin) < 0
            over == vmax # <<>> /\ cmp(x, vmax) > 0
        IN  /\ ~call.out <=> (under \/ over)
            /\ (vmin = <<>> /\ vmax = <<>>) => call.out
            /\ vmin = <<>> => (call.out <=> ~over)
            /\ vmax = <<>> => (call.out <=> ~under)

Wit_C14_SentinelBound ==
    /\ call.fn = "in_range"
    /\ call.args[1] # <<>> /\ call.args[2] = <<>> /\ call.args[3] # <<>>
    /\ cmp(call.args[1], call.args[3]) < 0
    /\ call.out


\* ---------------------------------------------------------------- C15
\* C15: for all Versions a, b, c with numeric segments, of equal or different
\* lengths, the empty Version included: a.cmp(b) = -b.cmp(a), a.cmp(a) = 0,
\* and a <= b and b <= c imply a <= c.
Thm_C15_CmpIsAnOrder ==
    call.fn = "cmp" =>
        /\ \A i, j \in 1..3 : call.out[i, j] = -call.out[j, i]
        /\ \A i \in 1..3 : call.out[i, i] = 0
        /\ \A i, j, k \in 1..3 :
              (call.out[i, j] <= 0 /\ call.out[j, k] <= 0) => call.out[i, k] <= 0

Wit_C15_ChainOfLengths ==
    /\ call.fn = "cmp"
    /\ call.args[1] = <<>>
    /\ Len(call.args[2]) = 2 /\ Len(call.args[3]) = 1
    /\ call.out[1, 2] < 0 /\ call.out[2, 3] < 0 /\ call.out[1, 3] < 0


\* ---------------------------------------------------------------- C16
\* C16, as stated: when the segments of one Version are the leading segments
\* of another that has more of them (4.9 against 4.9.1), the shorter one
\* compares as greater than the longer one.
ProperPrefix(a, b) ==
    /\ Len(a) < Len(b)
    /\ \A i \in 1..Len(a) : int(a[i]) = int(b[i])

Cex_C16_ShorterIsGreater ==
    call.fn = "cmp" =>
        \A i, j \in 1..3 :
            (call.args[i] # <<>> /\ ProperPrefix(call.args[i], call.args[j])) =>
                call.out[i, j] > 0

\* C16, amended: the shorter one compares as less than the longer one, from
\* either side of the comparison.
Thm_C16_ShorterIsLess ==
    call.fn = "cmp" =>
        \A i, j \in 1..3 :
            ProperPrefix(call.args[i], call.args[j]) =>
                call.out[i, j] < 0 /\ call.out[j, i] > 0

Wit_C16_PrefixCompared ==
    /\ call.fn = "cmp"
    /\ Len(call.args[1]) = 1
    /\ ProperPrefix(call.args[1], call.args[2])
    /\ call.out[1, 2] = -1


\* ---------------------------------------------------------------- C17
\* C17, as stated: the advisories come out of sorted() in ascending order of
\* their keys, and of two names that differ only in the value of one run of
\* digits the one with the smaller number comes first, whichever came first
\* in the feed.
SortedName(i) == call.args.pre \o call.args.nums[i] \o call.args.suf

AscendingKeys == ~str_lt(sort_key(call.out[2]), sort_key(call.out[1]))

SmallerNumberFirst ==
    \A i, j \in 1..2 :
        int(call.args.nums[i]) < int(call.args.nums[j]) =>
            call.out = <<SortedName(i), SortedName(j)>>

Cex_C17_NaturalOrder == call.fn = "sorted" => AscendingKeys /\ SmallerNumberFirst

\* C17, amended: that holds when the run of digits is a whole alphanumeric
\* field of the name, with no letter or digit next to it, and both numbers
\* have at most PadWidth digits' worth of value.
WholeField ==
    /\ call.args.pre = <<>> \/ ~isalnum(call.args.pre[Len(call.args.pre)])
    /\ call.args.suf = <<>> \/ ~isalnum(call.args.suf[1])

Thm_C17_NumericFieldOrder ==
    call.fn = "sorted" =>
        /\ AscendingKeys
        /\ {call.out[1], call.out[2]} = {SortedName(1), SortedName(2)}
        /\ (WholeField /\ \A i \in 1..2 : int(call.args.nums[i]) < 10 ^ PadWidth) =>
              SmallerNumberFirst

Wit_C17_FeedReordered ==
    /\ call.fn = "sorted"
    /\ WholeField
    /\ call.args.nums = <<(<<"1", "0">>), (<<"9">>)>>
    /\ call.out[1] = SortedName(2)
    /\ call.out[2] = SortedName(1)


\* ---------------------------------------------------------------- C18
\* C18: two Versions compare equal exactly when their string forms, and so
\* their hashes, are equal; the patch dict never holds two keys that compare
\* equal; and `cur in patches` is true exactly when some key of the dict
\* compares equal to cur.
Cex_C18_EqualityAgrees ==
    call.fn = "lookup" =>
        LET keys == {call.args.keys[i] : i \in 1..Len(call.args.keys)}
            patches == call.out.patches
        IN  /\ \A a, b \in keys \cup {call.args.cur} :
                  /\ eq(a, b) <=> str(a) = str(b)
                  /\ eq(a, b) <=> hash(a) = hash(b)
            /\ \A k1, k2 \in DOMAIN patches : eq(k1, k2) => k1 = k2
            /\ call.out.found <=> \E k \in DOMAIN patches : eq(k, call.args.cur)


\* ---------------------------------------------------------------- C19
\* C19: git am, patch --force, git add and git am --continue are run for a
\* patch only outside a dry run and only after, for the same patch in the
\* same call of process(), can_reverse() answered false, then
\* in_git_history() answered false, then can_apply() answered true; a call
\* in which can_apply() answered false ends with applied false and action
\* "Cannot apply" and leaves the tree as it was; reverse() is never called.
CallOf(i) == CHOOSE c \in CallIdx : c < i /\ \A d \in CallIdx : d < i => d <= c

Answered(j, op, b, ver) == trace[j].op = op /\ trace[j].res = b /\ trace[j].ver = ver

ProbedFirst(i) ==
    /\ \E c \in CallIdx : c < i
    /\ LET c == CallOf(i)
           ver == trace[i].ver
       IN  /\ trace[c].ver = ver
           /\ \E j3 \in (c + 1)..(i - 1) :
                 /\ Answered(j3, "can_apply", TRUE, ver)
                 /\ \E j2 \in (c + 1)..(j3 - 1) :
                       /\ Answered(j2, "in_git_history", FALSE, ver)
                       /\ \E j1 \in (c + 1)..(j2 - 1) : Answered(j1, "can_reverse", FALSE, ver)

Thm_C19_MutationOnlyAfterProbes ==
    /\ \A i \in 1..Len(trace) :
          /\ trace[i].op \in Mutators => ~cfg.dry_run /\ ProbedFirst(i)
          /\ trace[i].op # "reverse"
    /\ \A t \in 1..Len(tree) : ~cfg.dry_run /\ tree[t].op \in Mutators
    /\ (Returned /\ Got("can_apply", FALSE)) =>
          ~vuln.applied /\ vuln.action = "Cannot apply" /\ CallLeftTree

Wit_C19_AppliedAfterProbes ==
    /\ Returned /\ ~cfg.dry_run
    /\ Got("can_reverse", FALSE) /\ Got("in_git_history", FALSE) /\ Got("can_apply", TRUE)
    /\ Got("git_am", FALSE) /\ Got("apply", TRUE) /\ Did("git_add") /\ Did("am_continue")
    /\ Len(tree) > trace[LastCall].at


\* ---------------------------------------------------------------- C20
\* C20: the applied flag and the action string of every advisory agree:
\* applied is true exactly when the action is "Already applied", "In git
\* history", "Can apply", "Applied cleanly" or "Applied manually", and false
\* exactly when it is 'None', "Cannot apply" or "Skipped"; the two change only
\* in the step by which a call of process() returns, which leaves a verdict
\* in them, and no other step, the operator's reply included, changes them.
AppliedActions ==
    {"Already applied", "In git history", "Can apply", "Applied cleanly", "Applied manually"}

UnappliedActions == {"None", "Cannot apply", "Skipped"}

StatusAgrees ==
    \A j \in 1..Len(vuln_list) :
        /\ vuln_list[j].applied <=> vuln_list[j].action \in AppliedActions
        /\ ~vuln_list[j].applied <=> vuln_list[j].action \in UnappliedActions

InProcess ==
    pc \in {"can_reverse", "in_git_history", "can_apply", "git_am", "apply", "verify",
            "git_add", "add_prompt", "am_continue", "merge_prompt"}

Returning == InProcess /\ pc' \in {"backward", "report"}

StatusOf(list, j) == <<list[j].applied, list[j].action>>

StatusStep ==
    /\ pc # "get_vuln_list" =>
          /\ Len(vuln_list') = Len(vuln_list)
          /\ \A j \in 1..Len(vuln_list) :
                StatusOf(vuln_list', j) # StatusOf(vuln_list, j) => Returning /\ j = idx
    /\ Returning => vuln_list'[idx].action \in (AppliedActions \cup UnappliedActions) \ {"None"}
    /\ pc = "get_vuln_list" =>
          \A j \in 1..Len(vuln_list') : StatusOf(vuln_list', j) = <<FALSE, "None">>

Thm_C20_StatusAgrees == []StatusAgrees /\ [][StatusStep]_vars

Wit_C20_ReplyLeavesStatus ==
    /\ pc = "loop" /\ idx >= 1
    /\ \E i \in InputIdx : trace[i].raw = <<"a">>
    /\ ~vuln.applied /\ vuln.action = "Cannot apply"

====
